---- MODULE Spec2Model ----
(***************************************************************************)
(* Exact nearest-neighbour engines of the ann-competition repository:      *)
(* NaiveAlgorithm (src/naive_algorithm.cpp) and VectorDBKernel             *)
(* (src/algorithm.cpp) behind the ANNAlgorithm interface                   *)
(* (include/ann_interface.hpp).                                            *)
(*                                                                         *)
(* Floats are modelled in fixed point: a float is a record                 *)
(* [nan, val] with val counted in units of 1/Scale.  The inputs are whole  *)
(* numbers, so every sum and product the kernels accumulate is exact; only *)
(* sqrt and the final division round (towards minus infinity).             *)
(***************************************************************************)
EXTENDS Integers, Sequences, FiniteSets, TLC

\* ------------------------------------------------------------------ bounds
MaxDim == 2        \* largest dimension passed to init
MaxN == 3          \* largest n_samples passed to fit
MaxLen == 4        \* largest number of floats in a caller's buffer
Scale == 1000      \* fixed-point resolution of the float model
MaxQ == 2          \* largest n_queries passed to batch_query
NumThreads == 2    \* threads in the OpenMP team of batch_query

MaxKernelDim == 9  \* largest dimension a distance kernel is run with
MaxClusters == 3   \* largest num_clusters_ a StudentAlgorithm is built with
MaxProbe == 2      \* largest n_probe its query is run with
FloatBits == 4     \* significand bits of the rounding float model (float: 24)
IntBits == 4       \* width of int in the model (int: 32)
SizeBits == 12     \* width of size_t in the model (size_t: 64)

Lanes == 8         \* floats per chunk of the AVX2 loops (i + 7 < dimension_)
NeonLanes == 4     \* floats per chunk of the NEON loops (i + 3 < dimension_)

\* chunk widths of the three builds of VectorDBKernel: AVX2, NEON, fallback
Widths == {Lanes, NeonLanes, 1}

Vals == {-1, 0, 1}                     \* component values of input vectors
Metrics == {"euclidean", "angular", "manhattan"}   \* strings passed to init
Dims == 0..MaxDim
Ks == (-1)..(MaxN + 1)                 \* values of k passed to query

\* all sequences over S of length exactly n
Tuples(S, n) == [1..n -> S]

\* ------------------------------------------------------------------ floats
F(v) == [nan |-> FALSE, val |-> v]
NaN == [nan |-> TRUE, val |-> 0]

\* operator< of float: false whenever an operand is NaN
FLess(x, y) == ~x.nan /\ ~y.nan /\ x.val < y.val

RECURSIVE ISqrtSearch(_, _, _)
ISqrtSearch(x, lo, hi) ==
    IF lo >= hi THEN lo
    ELSE LET mid == (lo + hi + 1) \div 2
         IN  IF mid * mid <= x THEN ISqrtSearch(x, mid, hi)
             ELSE ISqrtSearch(x, lo, mid - 1)

\* std::sqrt of every sum of squares the vectors of the model can give:
\* coordinates lie in -1..1, so a sum over dim terms is at most 4 * dim
SqrtTable ==
    [s \in 0..(4 * MaxKernelDim) |->
        ISqrtSearch(s * Scale * Scale, 0, (s + 1) * Scale)]

\* std::sqrt of the whole number s, in units of 1/Scale
Sqrt(s) == SqrtTable[s]

\* ------------------------------------------------------- distance kernels
\* sum of f[i] for the C offsets i in lo..hi-1 (a scalar loop)
RECURSIVE ScalarLoop(_, _, _)
ScalarLoop(f, lo, hi) ==
    IF lo >= hi THEN 0 ELSE f[lo] + ScalarLoop(f, lo + 1, hi)

\* a tail loop that starts again at the offset the chunked loop started at
ChunkEnd_Restart(i, w, dim) == i

\* the offset at which the chunked loop "for (; i + w-1 < dim; i += w)" stops
RECURSIVE ChunkEnd(_, _, _)
ChunkEnd(i, w, dim) ==
    IF i + (w - 1) < dim THEN ChunkEnd(i + w, w, dim) ELSE i

\* one w-wide accumulator loop followed by its horizontal sum
RECURSIVE ChunkLoop(_, _, _, _)
ChunkLoop(f, i, w, dim) ==
    IF i + (w - 1) < dim
    THEN ScalarLoop(f, i, i + w) + ChunkLoop(f, i + w, w, dim)
    ELSE 0

\* chunked loop plus the scalar tail loop; w = 1 is the scalar fallback
SimdSum(f, w, dim) ==
    IF w = 1 THEN ScalarLoop(f, 0, dim)
    ELSE ChunkLoop(f, 0, w, dim) + ScalarLoop(f, ChunkEnd(0, w, dim), dim)

\* the offsets lo..hi-1 in ascending order
Offsets(lo, hi) == [j \in 1..(hi - lo) |-> lo + j - 1]

\* the offsets the scalar loop "for (; i < dim; ++i)" reads, from i on
TailLoads(i, dim) == Offsets(i, dim)

\* a chunked loop that loads a chunk as soon as its first element is inside
RECURSIVE ChunkLoads_Unguarded(_, _, _)
ChunkLoads_Unguarded(i, w, dim) ==
    IF i < dim
    THEN Offsets(i, i + w) \o ChunkLoads_Unguarded(i + w, w, dim)
    ELSE <<>>

\* the offsets the loads of "for (; i + w-1 < dim; i += w)" read: the load
\* at a + i reads the w floats at offsets i..i+w-1
RECURSIVE ChunkLoads(_, _, _)
ChunkLoads(i, w, dim) ==
    IF i + (w - 1) < dim
    THEN Offsets(i, i + w) \o ChunkLoads(i + w, w, dim)
    ELSE <<>>

\* every offset a kernel reads from a (and from b), in program order
Loads(w, dim) ==
    IF w = 1 THEN TailLoads(0, dim)
    ELSE ChunkLoads(0, w, dim) \o TailLoads(ChunkEnd(0, w, dim), dim)

\* a, b: functions from C offsets 0..dim-1 to whole numbers
SqDiff(a, b, dim) == [i \in 0..(dim - 1) |-> (a[i] - b[i]) * (a[i] - b[i])]
Prod(a, b, dim) == [i \in 0..(dim - 1) |-> a[i] * b[i]]

\* the cosine itself, not subtracted from 1
Cosine_Similarity(dot, norm_a, norm_b) ==
    LET den == (Sqrt(norm_a) * Sqrt(norm_b)) \div Scale
    IN  IF den = 0 THEN NaN
        ELSE F((dot * Scale * Scale) \div den)

\* 1.0f - (dot / (sqrt(norm_a) * sqrt(norm_b)))
Cosine(dot, norm_a, norm_b) ==
    LET den == (Sqrt(norm_a) * Sqrt(norm_b)) \div Scale
    IN  IF den = 0 THEN NaN      \* 0.0f / 0.0f
        ELSE F(Scale - ((dot * Scale * Scale) \div den))

euclidean_distance(a, b, dim) == F(Sqrt(ScalarLoop(SqDiff(a, b, dim), 0, dim)))

angular_distance(a, b, dim) ==
    Cosine(ScalarLoop(Prod(a, b, dim), 0, dim),
           ScalarLoop(Prod(a, a, dim), 0, dim),
           ScalarLoop(Prod(b, b, dim), 0, dim))

compute_euclidean_distance_simd(a, b, dim, w) ==
    F(Sqrt(SimdSum(SqDiff(a, b, dim), w, dim)))

compute_angular_distance_simd(a, b, dim, w) ==
    Cosine(SimdSum(Prod(a, b, dim), w, dim),
           SimdSum(Prod(a, a, dim), w, dim),
           SimdSum(Prod(b, b, dim), w, dim))

\* the metric test of compute_distance: anything but "euclidean" is angular
compute_distance(im, w, metric, a, b, dim) ==
    IF metric = "euclidean"
    THEN IF im = "naive" THEN euclidean_distance(a, b, dim)
         ELSE compute_euclidean_distance_simd(a, b, dim, w)
    ELSE IF im = "naive" THEN angular_distance(a, b, dim)
         ELSE compute_angular_distance_simd(a, b, dim, w)

\* ------------------------------------------------------ candidate selector
\* operator< of std::pair<float, int>; a pair is <<distance, index>>
PairLess(p, q) ==
    FLess(p[1], q[1]) \/ (~FLess(q[1], p[1]) /\ p[2] < q[2])

\* PairLess is irreflexive and total on pairs with distinct indices, so it is
\* a strict weak ordering on S exactly when it is transitive on S
IsStrictWeakOrder(S) ==
    \A p \in S : \A q \in S : \A r \in S :
        (PairLess(p, q) /\ PairLess(q, r)) => PairLess(p, r)

\* the first k elements of S in ascending order of PairLess, a strict total
\* order on S: the element at position j has exactly j - 1 elements below it
SortedPrefix(S, k) ==
    [j \in 1..k |->
        CHOOSE p \in S : Cardinality({q \in S : PairLess(q, p)}) = j - 1]

\* the permutations of 0..n-1, as sequences
Perms(n) == {p \in Tuples(0..(n - 1), n) : \A i \in 1..n : \A j \in 1..n :
                                            i # j => p[i] # p[j]}
PermsOf == [n \in 0..(MaxN + 1) |-> Perms(n)]

\* FirstOf[n][k]: the ways to fill the first k places from 0..n-1
FirstOf ==
    [n \in 0..(MaxN + 1) |->
        [k \in 0..n |-> {SubSeq(p, 1, k) : p \in PermsOf[n]}]]

\* std::partial_sort(begin, begin + k, end) on the sequence distances, for
\* 0 <= k <= Len(distances): the first k elements afterwards.  ord = <<>>
\* says that operator< is a strict weak ordering on the elements (Orders
\* below), and the first k are then the k smallest in ascending order.
\* Otherwise the effect of the call is not specified: the first k places
\* then hold the elements at the k distinct indices ord.
partial_sort(distances, k, ord) ==
    IF ord = <<>>
    THEN SortedPrefix({distances[i] : i \in 1..Len(distances)}, k)
    ELSE [j \in 1..k |-> distances[ord[j] + 1]]

\* ------------------------------------------------------------ engine state
VARIABLES
    impl,          \* "naive" (NaiveAlgorithm), "vectordb" (VectorDBKernel) or
                   \* "student" (StudentAlgorithm of EXAMPLES.md)
    metric_,       \* ANNAlgorithm::metric_
    dimension_,    \* ANNAlgorithm::dimension_
    n_samples_,    \* n_samples_
    data_,         \* data_, element at C offset o is data_[o + 1]
    sort_memo,     \* <<>>, or <<distances, k, ord>>: a call of
                   \* partial_sort on this collection whose operator< was
                   \* inconsistent, and the order ord the build left
    op,            \* the call that has just returned, "none" once the caller
                   \* has taken its return value
    q_arg,         \* the query vector of that call
    k_arg,         \* the k of that call
    outcome,       \* how that call ended
    result,        \* the list that query call returned
    init_called,   \* init has been called on this engine
    fit_called,    \* fit has been called on this engine
    running,       \* a batch_query call is executing
    queries,       \* its argument queries, element at C offset o is [o + 1]
    n_queries,     \* its argument n_queries
    results,       \* its local results; slot i of the code is results[i + 1]
    taken,         \* taken[i + 1]: loop iteration i has been handed out
    holder,        \* holder[i + 1]: the threads now inside iteration i
    writes,        \* writes[i + 1]: assignments made so far to slot i
    seen,          \* <<>>, or <<q, k, result, between>> of an earlier query
                   \* call on the fitted collection, or the shape
                   \* <<rows, columns>> of the array given to the binding's
                   \* fit, or <<buffer, fitted>>: the caller's data buffer
                   \* as it is now and as it was when fit was called
                   \* (the caller's side, not engine state)
    vec_a,         \* argument a of the last distance kernel call
    vec_b,         \* argument b of the last distance kernel call
    lanes,         \* floats per chunk of the build that ran it, 0 before
                   \* any kernel call
    loads,         \* the offsets it loaded from a and b, in order
    dist,          \* the distance it returned
    num_clusters_, \* StudentAlgorithm::num_clusters_
    n_probe,       \* n_probe of StudentAlgorithm::query
    centroids_,    \* StudentAlgorithm::centroids_, one row per cluster
    clusters_,     \* StudentAlgorithm::clusters_, one member list per cluster
    iter           \* assignment rounds of build_clusters completed

engine_vars == <<impl, metric_, dimension_, n_samples_, data_>>
call_vars == <<op, q_arg, k_arg, outcome, result>>
batch_vars == <<running, queries, n_queries, results, taken, holder, writes>>
kernel_vars == <<vec_a, vec_b, lanes, loads, dist>>
cluster_vars == <<num_clusters_, n_probe, centroids_, clusters_, iter>>

vars == <<impl, metric_, dimension_, n_samples_, data_, sort_memo,
          op, q_arg, k_arg, outcome, result, init_called, fit_called,
          running, queries, n_queries, results, taken, holder, writes,
          seen, vec_a, vec_b, lanes, loads, dist,
          num_clusters_, n_probe, centroids_, clusters_, iter>>

Threads == 1..NumThreads

\* a caller's sequence as a C array indexed from 0
AsArray(s) == [i \in 0..(Len(s) - 1) |-> s[i + 1]]

\* &data_[i * dimension_], read as dimension_ floats
Row(i) == [j \in 0..(dimension_ - 1) |-> data_[i * dimension_ + j + 1]]

\* every offset the distance loop of query reads lies inside data_
ReadsInBounds == n_samples_ * dimension_ <= Len(data_)

\* conversion of the whole number x to int: the value modulo 2^IntBits
\* that lies in the range of int
ToInt(x) == ((x + 2 ^ (IntBits - 1)) % (2 ^ IntBits)) - 2 ^ (IntBits - 1)

\* conversion of the whole number x to size_t
ToSize(x) == x % (2 ^ SizeBits)

\* the pair stored for candidate i, with the candidates numbered from 1
DistanceEntry_OneBased(q, i) ==
    <<compute_distance(impl, Lanes, metric_, q, Row(i), dimension_), i + 1>>

\* the body of the distance loop of query: distances[i] = {dist, i}
DistanceEntry(q, i) ==
    <<compute_distance(impl, Lanes, metric_, q, Row(i), dimension_),
      ToInt(i)>>    \* static_cast<int>(i)

\* the distance loop of query, run for the candidates 0..n-1
RECURSIVE FillDistances(_, _)
FillDistances(q, n) ==
    IF n = 0 THEN <<>>
    ELSE Append(FillDistances(q, n - 1), DistanceEntry(q, n - 1))

\* the vector "distances" that query builds for the query array q
Distances(q) == FillDistances(q, n_samples_)

\* operator< is not a strict weak ordering on the candidates
Inconsistent(distances) ==
    ~IsStrictWeakOrder({distances[i] : i \in 1..Len(distances)})

\* begin() + k lies inside [begin(), end()] and result(k) can be built
QueryDefined(k) == ReadsInBounds /\ 0 <= k /\ k <= n_samples_

\* every offset the distance loop reads from the caller's vector q lies
\* inside it: the loop reads q[0..dimension_-1] once per stored row
VectorReadable(q) == n_samples_ = 0 \/ dimension_ <= Len(q)

\* a build that could order the same candidates differently on each call
Orders_Forgetful(distances, k) ==
    IF ~Inconsistent(distances) THEN {<<>>}
    ELSE FirstOf[Len(distances)][k]

\* the orders partial_sort(begin, begin + k, end) may leave the candidates
\* in: the build is a fixed program, so the same call gives the same order
\* again; sort_memo follows this for one call, any one
Orders(distances, k) ==
    IF ~Inconsistent(distances) THEN {<<>>}
    ELSE IF sort_memo # <<>> /\ sort_memo[1] = distances /\ sort_memo[2] = k
         THEN {sort_memo[3]}
    ELSE FirstOf[Len(distances)][k]

\* sort_memo after that call: the call may become the one it follows
Remembered(distances, k, ord) ==
    IF ord # <<>> /\ sort_memo = <<>> THEN {sort_memo, <<distances, k, ord>>}
    ELSE {sort_memo}

\* the indices query extracts from the first k sorted candidates
ExtractIndices(distances, k, ord) ==
    LET sorted == partial_sort(distances, k, ord)
    IN  [j \in 1..k |-> sorted[j][2]]

\* a query that drops the stored collection once it has answered
no_member_assigned_Consumed ==
    /\ n_samples_' = 0 /\ data_' = <<>>
    /\ UNCHANGED <<impl, metric_, dimension_>>

\* the body of query assigns only its locals distances and result
no_member_assigned == UNCHANGED engine_vars

\* data_.size() * sizeof(float), without the factor dimension_ of the size
get_memory_usage_PerSample == n_samples_ * 4

\* get_memory_usage(): data_.size() * sizeof(float)
get_memory_usage == Len(data_) * 4

\* the members and the history of an engine that has just been constructed
Constructed ==
    /\ metric_ = ""
    /\ dimension_ = 0
    /\ n_samples_ = 0
    /\ data_ = <<>>
    /\ sort_memo = <<>>
    /\ op = "none"
    /\ q_arg = <<>>
    /\ k_arg = 0
    /\ outcome = "ok"
    /\ result = <<>>
    /\ init_called = FALSE
    /\ fit_called = FALSE
    /\ running = FALSE
    /\ queries = <<>>
    /\ n_queries = 0
    /\ results = <<>>
    /\ taken = <<>>
    /\ holder = <<>>
    /\ writes = <<>>
    /\ seen = <<>>
    /\ vec_a = <<>> /\ vec_b = <<>> /\ lanes = 0 /\ loads = <<>> /\ dist = F(0)
    /\ n_probe = 0
    /\ centroids_ = <<>> /\ clusters_ = <<>> /\ iter = 0

Init ==
    /\ impl \in {"naive", "vectordb"}
    /\ num_clusters_ = 0
    /\ Constructed

\* no call is executing and the caller holds no unread return value
Idle == op = "none" /\ ~running

init(metric, dimension) ==
    /\ Idle
    /\ metric_' = metric
    /\ dimension_' = dimension
    /\ init_called' = TRUE
    /\ op' = "init"
    /\ outcome' = "ok"
    /\ UNCHANGED <<impl, n_samples_, data_, sort_memo, fit_called,
                   q_arg, k_arg, result>>
    /\ UNCHANGED batch_vars
    /\ UNCHANGED <<seen, kernel_vars, cluster_vars>>

fit(data, n_samples) ==
    /\ Idle
    /\ Len(data) = n_samples * dimension_
    /\ n_samples_' = n_samples
    /\ data_' = data
    /\ sort_memo' = <<>>
    /\ fit_called' = TRUE
    /\ op' = "fit"
    /\ outcome' = "ok"
    /\ UNCHANGED <<impl, metric_, dimension_, init_called,
                   q_arg, k_arg, result>>
    /\ UNCHANGED batch_vars
    /\ UNCHANGED <<seen, kernel_vars, cluster_vars>>

query(q, k) ==
    /\ Idle
    /\ op' = "query"
    /\ q_arg' = q
    /\ k_arg' = k
    /\ IF QueryDefined(k) /\ VectorReadable(q)
       THEN \E distances \in {Distances(AsArray(q))} :
            \E ord \in Orders(distances, k) :
                /\ result' = ExtractIndices(distances, k, ord)
                /\ sort_memo' \in Remembered(distances, k, ord)
                /\ outcome' = "ok"
       ELSE /\ result' = <<>>
            /\ outcome' = "undefined"
            /\ UNCHANGED sort_memo
    /\ no_member_assigned
    /\ UNCHANGED <<init_called, fit_called>>
    /\ UNCHANGED batch_vars
    /\ UNCHANGED <<kernel_vars, cluster_vars>>

\* the caller takes the return value of the call and goes on
return ==
    /\ op # "none" /\ op # "build_clusters"
    /\ op' = "none"
    /\ q_arg' = <<>>
    /\ k_arg' = 0
    /\ outcome' = "ok"
    /\ result' = <<>>
    /\ running' = FALSE
    /\ queries' = <<>>
    /\ n_queries' = 0
    /\ results' = <<>>
    /\ taken' = <<>> /\ holder' = <<>> /\ writes' = <<>>
    /\ UNCHANGED <<engine_vars, sort_memo, init_called, fit_called>>
    /\ UNCHANGED <<seen, kernel_vars, cluster_vars>>

\* ------------------------------------------------------------ batch_query
\* queries + i * dimension_ without the stride: queries + i
QueryRow_NoStride(i) ==
    [j \in 0..(dimension_ - 1) |-> queries[i + j + 1]]

\* queries + i * dimension_, read as dimension_ floats
QueryRow(i) ==
    [j \in 0..(dimension_ - 1) |-> queries[i * dimension_ + j + 1]]

\* every thread of the team may run iteration i, handed out or not
Unassigned_EveryThread(i) == TRUE

\* "#pragma omp parallel for": iteration i has not been handed to a thread
Unassigned(i) == ~taken[i + 1]

\* entry of batch_query: the local results vector is created
batch_query(qs, n, k) ==
    /\ Idle
    /\ Len(qs) = n * dimension_
    /\ queries' = qs
    /\ n_queries' = n
    /\ k_arg' = k
    /\ IF n > 0 /\ ~QueryDefined(k)
       THEN /\ op' = "batch_query"
            /\ outcome' = "undefined"
            /\ UNCHANGED <<running, results, taken, holder, writes>>
       ELSE /\ running' = TRUE
            /\ results' = IF impl = "vectordb" THEN [i \in 1..n |-> <<>>]
                          ELSE <<>>
            /\ taken' = [i \in 1..n |-> FALSE]
            /\ holder' = [i \in 1..n |-> {}]
            /\ writes' = [i \in 1..n |-> 0]
            /\ UNCHANGED <<op, outcome>>
    /\ UNCHANGED <<engine_vars, sort_memo, init_called, fit_called,
                   q_arg, result>>
    /\ UNCHANGED <<seen, kernel_vars, cluster_vars>>

\* ANNAlgorithm::batch_query: one iteration of the sequential default loop
push_back ==
    /\ running /\ impl = "naive"
    /\ Len(results) < n_queries
    /\ \E i \in {Len(results)} :
       \E distances \in {Distances(QueryRow(i))} :
       \E ord \in Orders(distances, k_arg) :
           /\ results' = Append(results, ExtractIndices(distances, k_arg, ord))
           /\ sort_memo' \in Remembered(distances, k_arg, ord)
           /\ taken' = [taken EXCEPT ![i + 1] = TRUE]
           /\ writes' = [writes EXCEPT ![i + 1] = @ + 1]
    /\ no_member_assigned
    /\ UNCHANGED <<call_vars, init_called, fit_called,
                   running, queries, n_queries, holder>>
    /\ UNCHANGED <<seen, kernel_vars, cluster_vars>>

\* VectorDBKernel::batch_query: thread t of the team is handed iteration i
take(t, i) ==
    /\ running /\ impl = "vectordb"
    /\ \A j \in 1..n_queries : t \notin holder[j]
    /\ Unassigned(i)
    /\ taken' = [taken EXCEPT ![i + 1] = TRUE]
    /\ holder' = [holder EXCEPT ![i + 1] = @ \cup {t}]
    /\ UNCHANGED <<engine_vars, sort_memo, call_vars, init_called,
                   fit_called, running, queries, n_queries, results, writes>>
    /\ UNCHANGED <<seen, kernel_vars, cluster_vars>>

\* VectorDBKernel::batch_query: thread t runs the body of its iteration i,
\* results[i] = query(queries + i * dimension_, k)
assign(t, i) ==
    /\ running /\ impl = "vectordb"
    /\ t \in holder[i + 1]
    /\ \E distances \in {Distances(QueryRow(i))} :
       \E ord \in Orders(distances, k_arg) :
           /\ results' = [results EXCEPT ![i + 1] =
                              ExtractIndices(distances, k_arg, ord)]
           /\ sort_memo' \in Remembered(distances, k_arg, ord)
    /\ writes' = [writes EXCEPT ![i + 1] = @ + 1]
    /\ holder' = [holder EXCEPT ![i + 1] = @ \ {t}]
    /\ no_member_assigned
    /\ UNCHANGED <<call_vars, init_called, fit_called,
                   running, queries, n_queries, taken>>
    /\ UNCHANGED <<seen, kernel_vars, cluster_vars>>

\* a barrier that only opens when every thread of the team has had a row
LoopDone_TeamSized ==
    /\ \A i \in 1..n_queries : taken[i] /\ holder[i] = {}
    /\ n_queries >= NumThreads

\* a loop that is left once every iteration has been handed out, without
\* waiting for the threads still inside one
LoopDone_NoWait == \A i \in 1..n_queries : taken[i]

\* every iteration has been handed out and run to its end: the condition of
\* the sequential loop, and of the barrier that ends the parallel loop
LoopDone == \A i \in 1..n_queries : taken[i] /\ holder[i] = {}

\* the loop (and its barrier) is passed and batch_query returns results
join ==
    /\ running
    /\ LoopDone
    /\ running' = FALSE
    /\ op' = "batch_query"
    /\ outcome' = "ok"
    /\ UNCHANGED <<engine_vars, sort_memo, init_called, fit_called,
                   q_arg, k_arg, result, queries, n_queries, results,
                   taken, holder, writes>>
    /\ UNCHANGED <<seen, kernel_vars, cluster_vars>>

\* ------------------------------------------- StudentAlgorithm (EXAMPLES.md)
\* the example gives no compute_distance: the one of NaiveAlgorithm
StudentDist(a, b) == compute_distance("naive", 1, metric_, a, b, dimension_)

\* std::numeric_limits<float>::max(): above every distance of the model
FLT_MAX == F((4 * MaxKernelDim + 1) * Scale)

Rounds == 10       \* for (int iter = 0; iter < 10; ++iter)

\* &centroids_[c * dimension_], read as dimension_ floats
CentroidRow(c) ==
    [j \in 0..(dimension_ - 1) |-> centroids_[c * dimension_ + j + 1]]

\* centroids_ once row picks[c] of data has been copied to every row c
CopiedRows(data, picks, dim) ==
    [o \in 1..(num_clusters_ * dim) |->
        data[picks[(o - 1) \div dim] * dim + ((o - 1) % dim) + 1]]

\* clusters_.resize(num_clusters_): the lists there are kept, new ones empty
Resized(cl) ==
    [c \in 1..num_clusters_ |-> IF c <= Len(cl) THEN cl[c] ELSE <<>>]

\* the centroid loop for point i from cluster c on: the first cluster whose
\* distance is strictly below every earlier one, 0 if none is below FLT_MAX
RECURSIVE BestCluster(_, _, _, _)
BestCluster(i, c, min_dist, best_cluster) ==
    IF c >= num_clusters_ THEN best_cluster
    ELSE LET d == StudentDist(Row(i), CentroidRow(c))
         IN  IF FLess(d, min_dist) THEN BestCluster(i, c + 1, d, c)
             ELSE BestCluster(i, c + 1, min_dist, best_cluster)

\* a round that does not clear the member lists first
Cleared_Kept(cl) == cl

\* for (auto& cluster : clusters_) cluster.clear()
Cleared(cl) == [c \in 1..Len(cl) |-> <<>>]

\* the assignment loop for the points i..n_samples_-1
RECURSIVE AssignFrom(_, _)
AssignFrom(cl, i) ==
    IF i >= n_samples_ THEN cl
    ELSE AssignFrom([cl EXCEPT ![BestCluster(i, 0, FLT_MAX, 0) + 1] =
                                    Append(@, i)], i + 1)

\* fit up to the first round of build_clusters.  picks[c] is the rand_idx
\* drawn for cluster c; with n_samples = 0 the distribution is built for
\* the empty range (0, -1), which is undefined
cluster_fit(data, n_samples) ==
    /\ Idle /\ impl = "student"
    /\ Len(data) = n_samples * dimension_
    /\ n_samples_' = n_samples
    /\ data_' = data
    /\ fit_called' = TRUE
    /\ iter' = 0
    /\ IF n_samples = 0
       THEN /\ op' = "fit"
            /\ outcome' = "undefined"
            /\ UNCHANGED <<centroids_, clusters_>>
       ELSE /\ \E picks \in [0..(num_clusters_ - 1) -> 0..(n_samples - 1)] :
                   centroids_' = CopiedRows(data, picks, dimension_)
            /\ clusters_' = Resized(clusters_)
            /\ op' = "build_clusters"
            /\ outcome' = "ok"
    /\ UNCHANGED <<impl, metric_, dimension_, sort_memo, init_called,
                   q_arg, k_arg, result, num_clusters_, n_probe>>
    /\ UNCHANGED <<batch_vars, seen, kernel_vars>>

\* one iteration of the k-means loop: clear, then assign every point; fit
\* returns after the last one
assignment_round ==
    /\ op = "build_clusters"
    /\ clusters_' = AssignFrom(Cleared(clusters_), 0)
    /\ iter' = iter + 1
    /\ op' = IF iter + 1 = Rounds THEN "fit" ELSE op
    /\ UNCHANGED <<engine_vars, sort_memo, init_called, fit_called,
                   q_arg, k_arg, outcome, result,
                   num_clusters_, n_probe, centroids_>>
    /\ UNCHANGED <<batch_vars, seen, kernel_vars>>

\* centroid_distances of query for the clusters 0..n-1, before std::sort
RECURSIVE CentroidDistances(_, _)
CentroidDistances(q, n) ==
    IF n = 0 THEN <<>>
    ELSE Append(CentroidDistances(q, n - 1),
                <<StudentDist(q, CentroidRow(n - 1)), n - 1>>)

\* the candidates of the points of one member list, from place j on
RECURSIVE ClusterCandidates(_, _, _)
ClusterCandidates(q, members, j) ==
    IF j > Len(members) THEN <<>>
    ELSE <<<<StudentDist(q, Row(members[j])), members[j]>>>>
             \o ClusterCandidates(q, members, j + 1)

\* the candidates collected from the clusters at the places i.. of the
\* sorted centroid list, up to min(n_probe, num_clusters_)
RECURSIVE Candidates(_, _, _, _)
Candidates(q, sorted, i, probe) ==
    IF i > probe \/ i > num_clusters_ THEN <<>>
    ELSE ClusterCandidates(q, clusters_[sorted[i][2] + 1], 1)
             \o Candidates(q, sorted, i + 1, probe)

\* std::min(k, (int)candidates.size())
TopK(k, candidates) == IF k < Len(candidates) THEN k ELSE Len(candidates)

\* the lists the three steps of query can return for the query array q
\* and k >= 0 with n_probe = probe: std::sort of the centroid list, the
\* probe loop, partial_sort of the candidates and the extraction
ClusterResults(q, k, probe) ==
    LET cd == CentroidDistances(q, num_clusters_)
        Probed(cord) ==
            Candidates(q, partial_sort(cd, num_clusters_, cord), 1, probe)
        Top(candidates) ==
            {ExtractIndices(candidates, TopK(k, candidates), ord) :
                ord \in Orders(candidates, TopK(k, candidates))}
    IN  UNION {Top(Probed(cord)) : cord \in Orders(cd, num_clusters_)}

\* StudentAlgorithm::query on a built index, with n_probe = probe.  A
\* negative k makes partial_sort's middle precede begin(): undefined
cluster_query(q, k, probe) ==
    /\ Idle /\ impl = "student" /\ iter = Rounds
    /\ op' = "query"
    /\ q_arg' = q
    /\ k_arg' = k
    /\ n_probe' = probe
    /\ IF k < 0
       THEN /\ result' = <<>>
            /\ outcome' = "undefined"
       ELSE /\ result' \in ClusterResults(AsArray(q), k, probe)
            /\ outcome' = "ok"
    /\ UNCHANGED <<engine_vars, sort_memo, init_called, fit_called,
                   num_clusters_, centroids_, clusters_, iter>>
    /\ UNCHANGED <<batch_vars, seen, kernel_vars>>

\* one call of the distance function of the engine on the arrays a and b,
\* in the build whose chunks hold w floats (NaiveAlgorithm has scalar loops)
distance_kernel(a, b, w) ==
    /\ Idle /\ init_called
    /\ impl = "naive" => w = 1
    /\ Len(a) = dimension_ /\ Len(b) = dimension_
    /\ vec_a' = a
    /\ vec_b' = b
    /\ lanes' = w
    /\ loads' = Loads(w, dimension_)
    /\ dist' = compute_distance(impl, w, metric_, AsArray(a), AsArray(b),
                                dimension_)
    /\ UNCHANGED <<engine_vars, sort_memo, init_called, fit_called>>
    /\ UNCHANGED <<call_vars, batch_vars, seen, cluster_vars>>

\* --------------------------------------------------------- specifications
\* the calls a caller of the engine makes, with the arguments it may pass
InitCall ==
    /\ Idle
    /\ \E metric \in Metrics : \E dimension \in Dims : init(metric, dimension)

FitCall ==
    /\ Idle
    /\ \E n_samples \in 0..MaxN :
         /\ n_samples * dimension_ <= MaxLen
         /\ \E data \in Tuples(Vals, n_samples * dimension_) :
                fit(data, n_samples)

QueryCall ==
    /\ Idle
    /\ \E q \in Tuples(Vals, dimension_) : \E k \in Ks :
           query(q, k) /\ UNCHANGED seen

Next ==
    \/ InitCall
    \/ FitCall
    \/ QueryCall
    \/ return

Spec == Init /\ [][Next]_vars

\* a harness that configures and fits the engine once, with vectors over
\* BatchVals, and then issues queries and batch queries
BatchVals == {0, 1}

HarnessInit ==
    /\ Idle /\ ~init_called
    /\ \E metric \in Metrics : \E dimension \in Dims : init(metric, dimension)

HarnessFit ==
    /\ Idle /\ ~fit_called
    /\ \E n_samples \in 0..MaxN :
         /\ n_samples * dimension_ <= MaxLen
         /\ \E data \in Tuples(BatchVals, n_samples * dimension_) :
                fit(data, n_samples)

BatchCall ==
    /\ Idle
    /\ \E n \in 0..MaxQ :
         /\ n * dimension_ <= MaxLen
         /\ \E qs \in Tuples(BatchVals, n * dimension_) : \E k \in Ks :
                batch_query(qs, n, k)

HarnessQuery ==
    /\ Idle
    /\ \E q \in Tuples(BatchVals, dimension_) : \E k \in Ks :
           query(q, k) /\ UNCHANGED seen

Worker ==
    /\ running /\ impl = "vectordb"
    /\ \E t \in Threads : \E i \in 0..(n_queries - 1) :
           take(t, i) \/ assign(t, i)

BatchNext ==
    \/ HarnessInit
    \/ HarnessFit
    \/ BatchCall
    \/ HarnessQuery
    \/ push_back
    \/ Worker
    \/ join
    \/ return

BatchSpec == Init /\ [][BatchNext]_vars

\* a harness that configures and fits the engine once, keeps the answer of
\* its first query in seen and then repeats that query among other calls:
\* seen = <<q, k, result, between>>, between saying that a call with another
\* vector or another k has returned since.  sort_memo follows the query
\* kept in seen.
SameCall(q, k) == seen # <<>> /\ seen[1] = q /\ seen[2] = k

\* the answer to query(q, k) is fixed from now on: partial_sort was given a
\* consistent operator<, or this is the call sort_memo follows
Repeatable(q, k) ==
    \E distances \in {Distances(AsArray(q))} :
        \/ ~Inconsistent(distances)
        \/ k = 0
        \/ sort_memo' # <<>> /\ sort_memo'[1] = distances /\ sort_memo'[2] = k

\* vectors of one float are enough for three rows to fit into MaxLen
DetInit ==
    /\ Idle /\ ~init_called
    /\ \E metric \in Metrics : init(metric, 1)

DetFit ==
    /\ Idle /\ ~fit_called
    /\ \E n_samples \in 0..MaxN :
         /\ n_samples * dimension_ <= MaxLen
         /\ \E data \in Tuples(Vals, n_samples * dimension_) :
                fit(data, n_samples)

DetQuery ==
    /\ Idle /\ fit_called
    /\ \E q \in Tuples(Vals, dimension_) : \E k \in 0..MaxN :
           /\ query(q, k)
           /\ IF seen = <<>>
              THEN IF outcome' = "ok"
                   THEN Repeatable(q, k) /\ seen' = <<q, k, result', FALSE>>
                   ELSE UNCHANGED seen
              ELSE /\ seen' = [seen EXCEPT ![4] = @ \/ ~SameCall(q, k)]
                   /\ UNCHANGED sort_memo

\* the query kept in seen, asked again as a batch of one row
DetBatchCall ==
    /\ Idle /\ seen # <<>> /\ ~seen[4]
    /\ batch_query(seen[1], 1, seen[2])

DetBatchStep ==
    /\ push_back \/ Worker
    /\ UNCHANGED sort_memo

DetNext ==
    \/ DetInit
    \/ DetFit
    \/ DetQuery
    \/ DetBatchCall
    \/ DetBatchStep
    \/ join
    \/ return

DetSpec == Init /\ [][DetNext]_vars

\* the distance kernels on their own, run once per configuration.  The
\* vectors are the constant vectors 0 and 1 and the signed unit vectors: a
\* unit vector at offset j makes the element j the whole of every sum.
Unit(dim, j, v) == [i \in 1..dim |-> IF i = j THEN v ELSE 0]

KernelVecs(dim) ==
    {[i \in 1..dim |-> c] : c \in {0, 1}}
        \cup {Unit(dim, j, v) : j \in 1..dim, v \in {-1, 1}}

KernelInit ==
    /\ Idle /\ ~init_called
    /\ \E metric \in Metrics : \E dimension \in 0..MaxKernelDim :
           init(metric, dimension)

KernelCall ==
    /\ lanes = 0
    /\ \E a \in KernelVecs(dimension_) : \E b \in KernelVecs(dimension_) :
       \E w \in Widths :
           distance_kernel(a, b, w)

KernelNext ==
    \/ KernelInit
    \/ return
    \/ KernelCall

KernelSpec == Init /\ [][KernelNext]_vars

\* a StudentAlgorithm with num_clusters_ clusters, configured for vectors
\* of one float, fitted once and then queried
StudentInit ==
    /\ impl = "student"
    /\ num_clusters_ \in 1..MaxClusters
    /\ Constructed

ClusterInit ==
    /\ Idle /\ ~init_called
    /\ \E metric \in {"euclidean", "angular"} : init(metric, 1)

ClusterFit ==
    /\ init_called /\ ~fit_called
    /\ \E n_samples \in 0..MaxN :
         /\ n_samples * dimension_ <= MaxLen
         /\ \E data \in Tuples(BatchVals, n_samples * dimension_) :
                cluster_fit(data, n_samples)

ClusterQuery ==
    \E q \in Tuples(BatchVals, dimension_) : \E k \in (-1)..MaxN :
    \E probe \in 1..MaxProbe :
        cluster_query(q, k, probe)

ClusterNext ==
    \/ ClusterInit
    \/ ClusterFit
    \/ assignment_round
    \/ ClusterQuery
    \/ return

ClusterSpec == StudentInit /\ [][ClusterNext]_vars

\* ------------------------------------------------- rounding of the sums
\* The kernels on coordinates large enough for float addition to round.
\* A float keeps FloatBits significant bits and every operation rounds to
\* the nearest such value, ties to the even significand.  Values are
\* non-negative whole numbers of some unit.
RECURSIVE Ulp(_, _)
Ulp(x, u) == IF x < (2 ^ FloatBits) * u THEN u ELSE Ulp(x, 2 * u)

RoundFloat(x) ==
    LET u == Ulp(x, 1)
        q == x \div u
        r == x % u
    IN  IF 2 * r > u \/ (2 * r = u /\ q % 2 = 1) THEN (q + 1) * u ELSE q * u

\* std::sqrt(sum), correctly rounded, in units of 1 / 2^(FloatBits + 2):
\* the floor of the root with a sticky bit appended, then rounded
SqrtFloat(s) ==
    LET x == s * (4 ^ (FloatBits + 1))
        r == ISqrtSearch(x, 0, (s + 1) * (2 ^ (FloatBits + 1)))
    IN  RoundFloat(2 * r + (IF r * r = x THEN 0 ELSE 1))

\* "sum += diff * diff" for the offsets i..hi-1: the product rounds, then
\* the sum rounds
RECURSIVE RoundedLoop(_, _, _, _)
RoundedLoop(f, i, hi, sum) ==
    IF i >= hi THEN sum
    ELSE RoundedLoop(f, i + 1, hi, RoundFloat(sum + RoundFloat(f[i])))

\* lane l of sum_vec over "for (; i + 7 < dimension_; i += 8)":
\* _mm256_fmadd_ps rounds diff * diff + sum once
RECURSIVE LaneLoop(_, _, _, _, _)
LaneLoop(f, l, i, dim, acc) ==
    IF i + (Lanes - 1) < dim
    THEN LaneLoop(f, l, i + Lanes, dim, RoundFloat(acc + f[i + l]))
    ELSE acc

\* the horizontal sum of the AVX2 kernels: high half onto low half, then
\* neighbours, then the two pairs
HorizontalSum(sum_vec) ==
    LET total == [j \in 0..3 |-> RoundFloat(sum_vec[j] + sum_vec[j + 4])]
        sum_2 == [j \in {0, 2} |-> RoundFloat(total[j] + total[j + 1])]
    IN  RoundFloat(sum_2[0] + sum_2[2])

\* NaiveAlgorithm::euclidean_distance in rounding arithmetic
euclidean_distance_rounded(a, b, dim) ==
    F(SqrtFloat(RoundedLoop(SqDiff(a, b, dim), 0, dim, 0)))

\* the AVX2 branch of compute_euclidean_distance_simd in rounding arithmetic
compute_euclidean_distance_simd_rounded(a, b, dim) ==
    LET f == SqDiff(a, b, dim)
        sum_vec == [l \in 0..(Lanes - 1) |-> LaneLoop(f, l, 0, dim, 0)]
    IN  F(SqrtFloat(RoundedLoop(f, ChunkEnd(0, Lanes, dim), dim,
                                HorizontalSum(sum_vec))))

\* the vector "distances" engine im builds for the query array q
RoundedDistances(im, q) ==
    [n \in 1..n_samples_ |->
        <<IF im = "naive"
          THEN euclidean_distance_rounded(q, Row(n - 1), dimension_)
          ELSE compute_euclidean_distance_simd_rounded(q, Row(n - 1),
                                                       dimension_),
          ToInt(n - 1)>>]

\* query under the euclidean metric with the distances rounded
rounded_query(q, k) ==
    /\ Idle
    /\ QueryDefined(k) /\ VectorReadable(q) /\ metric_ = "euclidean"
    /\ op' = "query"
    /\ q_arg' = q
    /\ k_arg' = k
    /\ \E distances \in {RoundedDistances(impl, AsArray(q))} :
       \E ord \in Orders(distances, k) :
           /\ result' = ExtractIndices(distances, k, ord)
           /\ sort_memo' \in Remembered(distances, k, ord)
           /\ outcome' = "ok"
    /\ no_member_assigned
    /\ UNCHANGED <<init_called, fit_called>>
    /\ UNCHANGED batch_vars
    /\ UNCHANGED <<kernel_vars, cluster_vars>>

\* coordinates: 0, 1 and the number whose square fills the significand
RoundBig == 2 ^ (FloatBits \div 2)

\* rows of Lanes coordinates: RoundBig first, then zeros and ones
RoundRows ==
    {<<RoundBig>> \o t : t \in Tuples({0, 1}, Lanes - 1)}

RoundInit ==
    /\ Idle /\ ~init_called
    /\ init("euclidean", Lanes)

RoundFit ==
    /\ Idle /\ init_called /\ ~fit_called
    /\ \E r0 \in RoundRows : \E r1 \in RoundRows : fit(r0 \o r1, 2)

RoundQuery ==
    /\ Idle /\ fit_called
    /\ \E q \in Tuples({0}, Lanes) \cup Tuples({1}, Lanes) :
       \E k \in 1..n_samples_ :
           rounded_query(q, k) /\ UNCHANGED seen

RoundNext ==
    \/ RoundInit
    \/ RoundFit
    \/ RoundQuery
    \/ return

RoundSpec == Init /\ [][RoundNext]_vars

\* ------------------------------------------------------ Python binding
\* the largest row and column counts of the arrays given to the binding:
\* one more than the largest int plus one, one more than 2^IntBits
MaxRows == 2 ^ (IntBits - 1) + 1
MaxCols == 2 ^ IntBits + 1

\* a C-contiguous array of the given shape whose element [r][c] is 0 in
\* the even rows and 1 in the odd ones
RowParity(shape0, shape1) ==
    [j \in 1..(shape0 * shape1) |-> ((j - 1) \div shape1) % 2]

\* PyANNWrapper::fit on an array X of shape (shape0, shape1): the
\* conversions of the shape, algo_->init, algo_->fit
py_fit(metric, X, shape0, shape1) ==
    /\ Idle
    /\ LET n_samples == ToSize(shape0)
           dimension == ToInt(shape1)
           count == ToSize(n_samples * ToSize(dimension))
       IN  /\ metric_' = metric
           /\ dimension_' = dimension
           /\ n_samples_' = n_samples
           /\ init_called' = TRUE
           /\ IF count <= Len(X)
              THEN /\ data_' = SubSeq(X, 1, count)
                   /\ fit_called' = TRUE
                   /\ outcome' = "ok"
              ELSE \* resize throws or std::copy reads past the array
                   /\ UNCHANGED <<data_, fit_called>>
                   /\ outcome' = "undefined"
    /\ seen' = <<shape0, shape1>>
    /\ sort_memo' = <<>>
    /\ op' = "fit"
    /\ UNCHANGED <<impl, q_arg, k_arg, result>>
    /\ UNCHANGED batch_vars
    /\ UNCHANGED <<kernel_vars, cluster_vars>>

BindFit ==
    /\ Idle /\ ~init_called
    /\ \E shape0 \in 0..MaxRows : \E shape1 \in 0..MaxCols :
           py_fit("euclidean", RowParity(shape0, shape1), shape0, shape1)

\* PyANNWrapper::query on a vector of zeros
BindQuery ==
    /\ Idle /\ fit_called
    /\ \E len \in {dimension_, seen[2]} : \E k \in 0..n_samples_ :
           /\ len >= 0
           /\ query([j \in 1..len |-> 0], k)
           /\ UNCHANGED seen

BindNext ==
    \/ BindFit
    \/ BindQuery
    \/ return

BindSpec == Init /\ [][BindNext]_vars

\* ---------------------------------------------------- memory ownership
\* an engine that kept the caller's pointer: its collection is whatever
\* the caller's buffer holds
AfterCallerWrite_Shared(stored, buffer) == buffer

\* the engine's collection after the caller has written to, or released,
\* the buffer it passed to fit: data_ is a std::vector that fit resized and
\* filled with std::copy, storage of its own
AfterCallerWrite(stored, buffer) == stored

OwnerInit ==
    /\ Idle /\ ~init_called
    /\ \E metric \in {"euclidean", "angular"} : init(metric, 1)

\* the caller fills the buffer it is going to pass to fit
Allocate ==
    /\ Idle /\ init_called /\ ~fit_called
    /\ \E n \in 0..MaxN : \E buffer \in Tuples(BatchVals, n * dimension_) :
           seen' = <<buffer, buffer>>
    /\ UNCHANGED <<engine_vars, sort_memo, call_vars, init_called, fit_called>>
    /\ UNCHANGED batch_vars
    /\ UNCHANGED <<kernel_vars, cluster_vars>>

OwnerFit ==
    /\ Idle /\ ~fit_called /\ seen # <<>>
    /\ fit(seen[1], Len(seen[1]) \div dimension_)

\* after fit the caller overwrites its buffer, or releases it (<<>>)
CallerWrite ==
    /\ Idle /\ fit_called
    /\ \E buffer \in Tuples(BatchVals, Len(seen[2])) \cup {<<>>} :
           /\ buffer # seen[1]
           /\ seen' = <<buffer, seen[2]>>
           /\ data_' = AfterCallerWrite(data_, buffer)
    /\ UNCHANGED <<impl, metric_, dimension_, n_samples_, sort_memo>>
    /\ UNCHANGED <<call_vars, init_called, fit_called>>
    /\ UNCHANGED batch_vars
    /\ UNCHANGED <<kernel_vars, cluster_vars>>

OwnerQuery ==
    /\ Idle /\ fit_called
    /\ \E q \in Tuples(BatchVals, dimension_) : \E k \in 0..MaxN :
           query(q, k) /\ UNCHANGED seen

OwnerNext ==
    \/ OwnerInit
    \/ Allocate
    \/ OwnerFit
    \/ CallerWrite
    \/ OwnerQuery
    \/ return

OwnerSpec == Init /\ [][OwnerNext]_vars

\* batches under a fair scheduler: the sequential loop goes on, every
\* thread of the OpenMP team that can take or finish a row eventually
\* does, and the call returns once the loop is done.  The rows are zero
\* vectors: which row a thread runs matters here, not what the row holds.
LiveInit ==
    /\ Idle /\ ~init_called
    /\ init("euclidean", 1)

LiveBatchCall ==
    /\ Idle /\ fit_called
    /\ \E n \in 0..MaxQ :
         /\ n * dimension_ <= MaxLen
         /\ \E qs \in Tuples({0}, n * dimension_) : \E k \in Ks :
                batch_query(qs, n, k)

\* the steps of thread t of the team
ThreadStep(t) ==
    \E i \in 0..(n_queries - 1) : take(t, i) \/ assign(t, i)

LiveNext ==
    \/ LiveInit
    \/ HarnessFit
    \/ LiveBatchCall
    \/ push_back
    \/ \E t \in Threads : ThreadStep(t)
    \/ join
    \/ return

Fairness ==
    /\ WF_vars(push_back)
    /\ \A t \in Threads : WF_vars(ThreadStep(t))
    /\ WF_vars(join)

LiveSpec == Init /\ [][LiveNext]_vars /\ Fairness

\* queries whose vector has any length up to MaxDim + 1 floats, on an
\* engine configured and fitted once
MismatchInit ==
    /\ Idle /\ ~init_called
    /\ \E metric \in Metrics : \E dimension \in 1..MaxDim :
           init(metric, dimension)

MismatchQuery ==
    /\ Idle /\ fit_called
    /\ \E len \in 0..(MaxDim + 1) : \E q \in Tuples(BatchVals, len) :
       \E k \in Ks :
           query(q, k) /\ UNCHANGED seen

MismatchNext ==
    \/ MismatchInit
    \/ HarnessFit
    \/ MismatchQuery
    \/ return

MismatchSpec == Init /\ [][MismatchNext]_vars

\* the same engine fitted with vectors of either sign, so that the angular
\* distances of a query take the values 0, 2 and NaN
RecallFit ==
    /\ init_called /\ ~fit_called
    /\ \E n_samples \in 0..MaxN :
         /\ n_samples * dimension_ <= MaxLen
         /\ \E data \in Tuples(Vals, n_samples * dimension_) :
                cluster_fit(data, n_samples)

RecallQuery ==
    \E q \in Tuples(Vals, dimension_) : \E k \in 0..MaxN :
    \E probe \in 1..MaxClusters :
        cluster_query(q, k, probe)

RecallNext ==
    \/ ClusterInit
    \/ RecallFit
    \/ assignment_round
    \/ RecallQuery
    \/ return

RecallSpec == StudentInit /\ [][RecallNext]_vars

\* ------------------------------------------------------------------ claims
\* the engine holds a collection of n_samples_ vectors of dimension_ floats
Fitted == fit_called /\ Len(data_) = n_samples_ * dimension_

\* a query call on a fitted collection with 1 <= k <= n has returned
ValidQueryReturned ==
    /\ op = "query"
    /\ Fitted
    /\ 1 <= k_arg /\ k_arg <= n_samples_

\* the distance the engine computes between the query vector q and row i
DistOf(q, i) == DistanceEntry(AsArray(q), i)[1]

Returned == {result[j] : j \in 1..Len(result)}

C2_SortedByDistance ==
    ValidQueryReturned =>
        /\ outcome = "ok"
        /\ \A i \in 1..Len(result) : \A j \in 1..Len(result) :
               i < j => ~FLess(DistOf(q_arg, result[j]),
                               DistOf(q_arg, result[i]))
        /\ \A o \in (0..(n_samples_ - 1)) \ Returned : \A r \in Returned :
               ~FLess(DistOf(q_arg, o), DistOf(q_arg, r))

\* two rows at the same distance from the query vector q
Equidistant(q, a, b) ==
    /\ ~DistOf(q, a).nan /\ ~DistOf(q, b).nan
    /\ DistOf(q, a).val = DistOf(q, b).val

\* C3: the selection returns the k smallest (distance, index) pairs, ties in
\* distance broken by ascending index: of two equidistant rows the one with
\* the smaller index comes first and is the one kept when only one fits.
C3_KSmallestTiesByIndex ==
    ValidQueryReturned =>
        /\ outcome = "ok"
        /\ \A o \in (0..(n_samples_ - 1)) \ Returned : \A r \in Returned :
               PairLess(<<DistOf(q_arg, r), r>>, <<DistOf(q_arg, o), o>>)
        /\ \A i \in 1..Len(result) : \A b \in 0..(n_samples_ - 1) :
               (Equidistant(q_arg, result[i], b) /\ b < result[i]) =>
                   \E j \in 1..Len(result) : j < i /\ result[j] = b

\* row i of the caller's queries matrix, n_queries rows of dimension_ floats
QueryVector(i) == SubSeq(queries, i * dimension_ + 1, (i + 1) * dimension_)

\* a batch_query call has returned its results
BatchReturned == op = "batch_query" /\ outcome = "ok"

\* C4: when batch_query returns, it returns one list per query row, in row
\* order, and the list for row i is what query returns for that row and the
\* same k on the same fitted index; this holds for the sequential default
\* and for the OpenMP override under every interleaving of its threads.
C4_BatchEqualsPerRowQuery ==
    BatchReturned =>
        /\ Len(results) = n_queries
        /\ \A i \in 0..(n_queries - 1) :
               \E distances \in {Distances(AsArray(QueryVector(i)))} :
               \E ord \in Orders(distances, k_arg) :
                   results[i + 1] = ExtractIndices(distances, k_arg, ord)

C4_Witness ==
    /\ BatchReturned /\ impl = "vectordb"
    /\ dimension_ = 2 /\ n_queries = 2 /\ k_arg >= 1
    /\ results[1] # results[2]

\* C5: in the OpenMP override the results vector has n_queries slots from
\* the start and never grows; a slot is written at most once, by the one
\* thread that was handed its row, and no thread is inside two rows at once.
C5_DisjointOutputSlots ==
    (impl = "vectordb" /\ (running \/ BatchReturned)) =>
        /\ Len(results) = n_queries
        /\ \A i \in 1..n_queries :
               /\ Cardinality(holder[i]) <= 1
               /\ writes[i] + Cardinality(holder[i]) <= 1
               /\ writes[i] + Cardinality(holder[i]) = 1 <=> taken[i]
        /\ \A i \in 1..n_queries : \A j \in 1..n_queries :
               i # j => holder[i] \cap holder[j] = {}

C5_Witness ==
    /\ running /\ impl = "vectordb" /\ n_queries = 2
    /\ holder[1] = {2} /\ writes[1] = 0
    /\ holder[2] = {} /\ writes[2] = 1

\* C6: query fails with InvalidArgument whenever k <= 0 or k > n_samples.
C6_InvalidKRejected ==
    (op = "query" /\ (k_arg <= 0 \/ k_arg > n_samples_)) =>
        outcome = "InvalidArgument"

\* C7: query and batch_query on an engine on which fit has not completed
\* fail with StateError and return no indices.
C7_QueryBeforeFitRejected ==
    (op \in {"query", "batch_query"} /\ ~fit_called) =>
        (outcome = "StateError" /\ result = <<>>)

\* C8: an init call on an engine that was already initialised fails with
\* ConfigError and leaves metric and dimension as the first init set them.
C8_SecondInitRejected ==
    [][(op = "none" /\ op' = "init" /\ init_called) =>
          (outcome' = "ConfigError" /\ metric_' = metric_
           /\ dimension_' = dimension_)]_vars

\* C9: init with a metric other than "euclidean" or "angular" fails with
\* ConfigError, and no query computes distances under such a metric.
C9_UnknownMetricRejected ==
    /\ (op = "init" /\ metric_ \notin {"euclidean", "angular"}) =>
           outcome = "ConfigError"
    /\ (op = "query" /\ outcome = "ok" /\ n_samples_ > 0) =>
           metric_ \in {"euclidean", "angular"}

\* C10: a fit call before init, or a second fit call, fails with StateError
\* and leaves the stored reference collection as it was.
C10_FitOutOfOrderRejected ==
    [][(op = "none" /\ op' = "fit" /\ (~init_called \/ fit_called)) =>
          (outcome' = "StateError" /\ data_' = data_
           /\ n_samples_' = n_samples_)]_vars

\* the lifecycle state of the engine: Uninitialized until init has been
\* called, Ready when it holds a collection fitted for its configured
\* dimension, Configured otherwise; numbered in the order of the lifecycle
Lifecycle ==
    IF ~init_called THEN 0
    ELSE IF Fitted THEN 2
    ELSE 1

\* C11: over any sequence of calls the lifecycle state only moves forward,
\* Uninitialized -> Configured -> Ready; no call takes a Ready engine back
\* to Configured or Uninitialized, or a Configured one to Uninitialized.
C11_LifecycleOnlyForward == [][Lifecycle' >= Lifecycle]_vars

\* a step of a query call or of a batch_query call
QueryStep == op' = "query" \/ running \/ running'

\* C12: query and batch_query leave the stored collection, n_samples,
\* dimension and metric as they were, in every step of the call and of
\* every worker of a parallel batch.
C12_QueriesLeaveEngineUnchanged ==
    [][QueryStep =>
          <<data_, n_samples_, dimension_, metric_>>' =
          <<data_, n_samples_, dimension_, metric_>>]_vars

\* a worker has stored its result while another worker is inside its row
C12_Witness ==
    /\ running /\ impl = "vectordb" /\ n_samples_ > 0
    /\ \E i \in 1..n_queries : \E j \in 1..n_queries :
           writes[i] = 1 /\ holder[j] # {}

\* C18: after fit(data, n) get_memory_usage returns n * dimension * 4, and
\* no step of a query or batch_query call changes the value it returns.
C18_MemoryUsageIsStoredBytes ==
    [][/\ (op = "none" /\ op' = "fit") =>
              get_memory_usage' = n_samples_' * dimension_' * 4
       /\ QueryStep => get_memory_usage' = get_memory_usage]_vars

\* a query has returned on a collection of two vectors of two floats
C18_Witness ==
    /\ op = "query" /\ outcome = "ok"
    /\ n_samples_ = 2 /\ dimension_ = 2 /\ get_memory_usage = 16

ScalarDist ==
    compute_distance("naive", 1, metric_, AsArray(vec_a), AsArray(vec_b),
                     dimension_)

\* a kernel of a vectorized build (AVX2 or NEON) has run
Vectorized == lanes \in {Lanes, NeonLanes}

\* C14: for every dimension and both chunk widths, every offset a
\* vectorized kernel loads from its input vectors lies in [0, dimension)
C14_LoadsInBounds ==
    Vectorized => \A j \in 1..Len(loads) : 0 <= loads[j] /\ loads[j] < dimension_

\* a chunk and a tail element have been loaded
C14_Witness ==
    /\ lanes = Lanes /\ dimension_ = Lanes + 1
    /\ Len(loads) = Lanes + 1

\* C15: the chunked loop and the tail loop of a vectorized kernel take
\* every index in [0, dimension) exactly once, and the distance equals the
\* one of the scalar loops
C15_VectorizedEqualsScalar ==
    Vectorized =>
        /\ \A i \in 0..(dimension_ - 1) :
               Cardinality({j \in 1..Len(loads) : loads[j] = i}) = 1
        /\ dist = ScalarDist

\* the dimension is one more than the chunk width and the last element,
\* which only the tail loop takes, decides the distance
C15_Witness ==
    /\ lanes = NeonLanes /\ dimension_ = NeonLanes + 1
    /\ vec_a = Unit(dimension_, dimension_, 1)
    /\ vec_b = Unit(dimension_, dimension_, -1)
    /\ metric_ = "euclidean" /\ dist = F(2 * Scale)

\* C16: the angular kernel gives 0.0 for [1,0] and [1,0], 1.0 for [1,0]
\* and [0,1], 2.0 for [1,0] and [-1,0]
C16_AngularScenario ==
    (metric_ = "angular" /\ lanes # 0 /\ vec_a = <<1, 0>>) =>
        /\ vec_b = <<1, 0>> => dist = F(0)
        /\ vec_b = <<0, 1>> => dist = F(Scale)
        /\ vec_b = <<-1, 0>> => dist = F(2 * Scale)

C16_Witness ==
    /\ metric_ = "angular" /\ impl = "vectordb" /\ lanes = Lanes
    /\ vec_a = <<1, 0>> /\ vec_b = <<-1, 0>> /\ dist = F(2 * Scale)

\* a vector all of whose elements are 0
ZeroNorm(v) == \A i \in 1..Len(v) : v[i] = 0

\* C17: under the angular metric a kernel call with a zero-norm vector
\* returns a defined value, never NaN
C17_ZeroNormDefined ==
    (metric_ = "angular" /\ lanes # 0 /\ (ZeroNorm(vec_a) \/ ZeroNorm(vec_b)))
        => ~dist.nan

\* the number of places in the member lists that hold the index i
RECURSIVE Memberships(_, _)
Memberships(i, c) ==
    IF c = 0 THEN 0
    ELSE Cardinality({j \in 1..Len(clusters_[c]) : clusters_[c][j] = i})
             + Memberships(i, c - 1)

\* C19: after every assignment round of build_clusters, and so after the
\* build, the member lists are pairwise disjoint and their union is [0, n):
\* every index in [0, n) is in exactly one place, and nothing else is
C19_ClustersPartition ==
    (impl = "student" /\ iter >= 1) =>
        /\ Len(clusters_) = num_clusters_
        /\ \A i \in 0..(n_samples_ - 1) : Memberships(i, num_clusters_) = 1
        /\ \A c \in 1..num_clusters_ : \A j \in 1..Len(clusters_[c]) :
               0 <= clusters_[c][j] /\ clusters_[c][j] < n_samples_

\* the build has finished with two clusters in use
C19_Witness ==
    /\ impl = "student" /\ iter = Rounds /\ op = "none"
    /\ \E c, d \in 1..num_clusters_ :
           c # d /\ clusters_[c] # <<>> /\ clusters_[d] # <<>>

\* C20: the cluster query returns exactly k indices whenever the
\* collection holds at least k vectors
C20_ExactlyKFromClusters ==
    (impl = "student" /\ op = "query" /\ outcome = "ok"
        /\ k_arg <= n_samples_) => Len(result) = k_arg

\* the lists the exact engine can return for the call in q_arg, k_arg
ExactResults ==
    {ExtractIndices(Distances(AsArray(q_arg)), k_arg, ord) :
        ord \in Orders(Distances(AsArray(q_arg)), k_arg)}

\* the number of indices of the list truth that the list r holds
Hits(r, truth) ==
    Cardinality({r[j] : j \in 1..Len(r)}
                    \cap {truth[j] : j \in 1..Len(truth)})

\* C21: a cluster query finds at most as many of the exact engine's k
\* nearest neighbours as the same query with n_probe one larger, and all
\* of them, in the exact engine's order, with n_probe = num_clusters_
C21_RecallMonotoneInProbe ==
    (impl = "student" /\ op = "query" /\ outcome = "ok"
        /\ k_arg <= n_samples_) =>
        \A truth \in ExactResults :
            /\ \A more \in ClusterResults(AsArray(q_arg), k_arg, n_probe + 1) :
                   Hits(result, truth) <= Hits(more, truth)
            /\ n_probe >= num_clusters_ => result = truth

\* the sum of the element at offset j of the rows in the member list, from
\* place i on
RECURSIVE MemberSum(_, _, _)
MemberSum(members, j, i) ==
    IF i > Len(members) THEN 0
    ELSE data_[members[i] * dimension_ + j + 1] + MemberSum(members, j, i + 1)

\* C22: an assignment round replaces the centroid of every cluster that
\* has members by the mean of its members and keeps the centroid of every
\* empty cluster
C22_CentroidsBecomeMeans ==
    [][(op = "build_clusters" /\ iter' = iter + 1) =>
        \A c \in 1..num_clusters_ : \A j \in 0..(dimension_ - 1) :
            IF clusters_'[c] = <<>>
            THEN centroids_'[(c - 1) * dimension_ + j + 1]
                     = centroids_[(c - 1) * dimension_ + j + 1]
            ELSE centroids_'[(c - 1) * dimension_ + j + 1] * Len(clusters_'[c])
                     = MemberSum(clusters_'[c], j, 1)]_vars

\* C23: batch_query with an empty batch fails with InvalidArgument
C23_EmptyBatchRejected ==
    (op = "batch_query" /\ n_queries = 0) => outcome = "InvalidArgument"

C24_WrongLengthRejected ==
    (op = "query" /\ Len(q_arg) # dimension_) => outcome = "InvalidArgument"

\* C26: under fair scheduling every batch_query call that has started its
\* loop returns, and when it returns every slot 0..n_queries-1 holds a
\* complete list of k indices and no thread is inside a row
C26_BatchEventuallyReturns ==
    /\ running ~> BatchReturned
    /\ [](BatchReturned =>
            /\ Len(results) = n_queries
            /\ \A i \in 1..n_queries :
                   Len(results[i]) = k_arg /\ holder[i] = {})

\* the parallel loop has returned a batch with more rows than one
C26_Witness ==
    /\ BatchReturned /\ impl = "vectordb"
    /\ n_queries >= 2 /\ k_arg >= 1
    /\ \A i \in 1..n_queries : Len(results[i]) = k_arg

\* C27: after any sequence of init and fit calls the stored buffer holds
\* n_samples_ * dimension_ floats for the current dimension_, the one the
\* queries use
C27_BufferMatchesDimension ==
    fit_called => Len(data_) = n_samples_ * dimension_

\* the index lists NaiveAlgorithm::query gives for the stored collection
\* and the arguments of the call, in rounding arithmetic
NaiveRoundedResults ==
    LET distances == RoundedDistances("naive", AsArray(q_arg))
    IN  {ExtractIndices(distances, k_arg, ord) :
            ord \in Orders(distances, k_arg)}

\* C28: for the same metric, dimension, data, query vector and k,
\* VectorDBKernel::query returns the index list NaiveAlgorithm::query returns
C28_SameAsNaive ==
    (op = "query" /\ outcome = "ok" /\ impl = "vectordb")
        => result \in NaiveRoundedResults

\* C29: the engine holds the rows and columns of the array it was fitted
\* with, n_samples * dimension floats, and every index a query returns is
\* the position of a row: no conversion truncates or wraps
C29_NoTruncation ==
    /\ (fit_called /\ seen # <<>>) =>
           /\ n_samples_ = seen[1] /\ dimension_ = seen[2]
           /\ Len(data_) = seen[1] * seen[2]
    /\ (op = "query" /\ outcome = "ok") =>
           \A j \in 1..Len(result) : 0 <= result[j] /\ result[j] < n_samples_

\* C30: the engine's collection is the floats the caller's buffer held
\* when fit was called, whatever the caller has done to the buffer since,
\* so later queries are answered from those floats; and a query leaves
\* nothing of its vector in the engine
C30_FitCopies ==
    /\ [](fit_called => data_ = seen[2])
    /\ [][op' = "query" => UNCHANGED engine_vars]_vars

\* a query has been answered after the caller changed the fitted buffer
C30_Witness ==
    /\ fit_called /\ seen[1] # seen[2] /\ seen[1] # <<>>
    /\ op = "query" /\ outcome = "ok" /\ Len(result) >= 1
====
